---- MODULE Spec2Model ----
(***************************************************************************)
(* Booking lifecycle and occupancy sessions of the operator dashboards.    *)
(* The store (tables bookings and user_sessions) is shared; every operator *)
(* runs a dashboard that keeps a local copy of the tables and issues the   *)
(* asynchronous handlers updateBookingStatus, startBookingSession and      *)
(* endBookingSession.  Every await of a handler is a separate step, so the *)
(* handlers of different operators interleave at their store calls.        *)
(***************************************************************************)
EXTENDS Integers, Sequences, FiniteSets, TLC

\* ---------------------------------------------------------------- bounds
MaxCalls == 3           \* handler invocations of a single operator
MaxRaceCalls == 3       \* handler invocations of two concurrent operators
MaxTicks == 1           \* times the clock advances
TickSeconds == 125      \* seconds per clock advance
MaxElapsed == 185       \* seconds a session has been running when it is ended
MaxEndCalls == 1        \* handler invocations when one session is ended
MaxRows == 2            \* sessions of the store the statistics are taken over
MaxInflight == 2        \* answers of re-fetches on their way at a time
MaxStartCalls == 4
MaxAuthCalls == 3       \* calls of login, register, logout and refreshUserSession

\* ------------------------------------------------------------- universes
Operators == {"op1", "op2"}
Codes == {"AB12CD", "ZX98YW"}
NoCode == "null"
NoId == "null"
NoTime == -1
Absent == "absent"

Status == {"pending", "code_sent", "confirmed", "rejected", "cancelled"}

\* user_id column of the bookings (b1 and b3 are bookings of the same user,
\* the others were created without a user)
BookingUser(b) == IF b \in {"b1", "b3"} THEN "u1" ELSE NoId

\* total_price column of the bookings
BookingPrice(b) ==
    CASE b = "b1" -> 100 [] b = "b2" -> 200 [] b = "b3" -> 300 [] OTHER -> 50

\* rows of table users with role customer
Customers == {"u1", "u2"}

\* role of the signed-in operator (the dashboard admits admin and staff)
OperatorRole(o) == IF o = "op1" THEN "admin" ELSE "staff"

\* the window of the active-user statistic: setDate(getDate() - 30)
WindowDays == 30
WindowSeconds == WindowDays * 24 * 60 * 60

\* outcomes of the webhook fetch: it resolves (2xx or not) or rejects
FetchOutcomes == {"resolved_2xx", "resolved_non2xx", "rejected"}

VARIABLES
    bookings,         \* table bookings: id -> row
    user_sessions,    \* table user_sessions: sequence of rows, id = index
    now,              \* wall clock, seconds
    localBookings,    \* per operator: useState bookings (id -> status seen)
    activeSessions,   \* per operator: useState activeSessions (ids seen active)
    stats,            \* per operator: useState stats
    startingSession,  \* per operator: useState startingSession
    endingSession,    \* per operator: useState endingSession
    pc,               \* per operator: await the running handler is at
    call,             \* per operator: arguments and locals of that handler
    toast,            \* per operator: toast on display
    budget,           \* handler invocations left
    user,             \* per operator: role of AuthContext's user, or null
    pending,          \* per subscribed operator: tables to be re-fetched
    responses,        \* answers of re-fetches on their way to a dashboard
    lastCode,         \* per booking: confirmationCode of the last webhook call
    metadata,         \* per operator: role in the auth session's user_metadata
    users,            \* table users: per account the role of its profile row
    authUsers,        \* auth server: per account the role in user_metadata
    ctx               \* per operator: AuthContext's calls, isLoading

storeVars == <<bookings, user_sessions>>
viewVars == <<localBookings, activeSessions, stats>>
busyVars == <<startingSession, endingSession>>
ctxVars == <<users, authUsers, ctx>>
envVars == <<user, responses, lastCode, metadata, users, authUsers, ctx>>
vars == <<bookings, user_sessions, now, localBookings, activeSessions, stats,
          startingSession, endingSession, pc, call, toast, budget, user,
          pending, responses, lastCode, metadata, users, authUsers, ctx>>

\* ---------------------------------------------------------------- helpers
NoCall == [bookingId |-> NoId, sessionId |-> 0, newStatus |-> "null",
           confirmationCode |-> NoCode, expected |-> "null",
           updated_at |-> NoTime, found |-> FALSE,
           start_time |-> NoTime, endTime |-> NoTime, durationMinutes |-> -1,
           joined |-> FALSE, fetchOutcome |-> "null", page |-> FALSE,
           userId |-> NoId, committed |-> FALSE, dispatched |-> 0]

\* Math.ceil(ms / (1000 * 60)) for an elapsed time given in seconds
\* a duration that is rounded to the nearest minute instead
CeilMinutes_Round(seconds) == (seconds * 1000 + 30000) \div 60000

CeilMinutes(seconds) ==
    LET ms == seconds * 1000
    IN  IF ms >= 0
        THEN (ms + 59999) \div 60000
        ELSE -((-ms) \div 60000)

SessionIds == 1..Len(user_sessions)

\* the operators whose dashboard is mounted
Online == DOMAIN pc

\* rows of user_sessions with .eq('booking_id', b)
SessionsOfBooking(b) == {s \in SessionIds : user_sessions[s].booking_id = b}

\* rows with status active of a booking
ActiveOfBooking(b) ==
    {s \in SessionsOfBooking(b) : user_sessions[s].status = "active"}

\* useState<DashboardStats> initial value
NoStats == [totalBookings |-> 0, pendingBookings |-> 0,
            confirmedBookings |-> 0, totalRevenue |-> 0, activeUsers |-> 0]

\* no user is signed in
NoUser == "null"

\* AuthContext with no call under way: the positions of login, register,
\* logout and refreshUserSession, their locals, isLoading, the error raised
\* to the caller of the last login or register, whether the last login
\* found the profile row (userProfile), and whether the last completed call
\* was a login (signedIn) or a logout (signedOut)
NoCtx ==
    [login |-> "idle", register |-> "idle", logout |-> "idle",
     refresh |-> "idle", dataUser |-> "null", currentUserData |-> "null",
     session |-> "null", refreshed |-> "null", isLoading |-> FALSE,
     raised |-> "none", userProfile |-> FALSE, signedIn |-> FALSE,
     signedOut |-> FALSE]

\* the dashboards of the operators ops at time t, over a store holding the
\* bookings bk and the sessions us; subs are the operators whose change
\* subscriptions and re-fetches are followed message by message
InitDashboard(bk, us, t, ops, subs, n) ==
    /\ bookings = bk
    /\ user_sessions = us
    /\ now = t
    /\ localBookings = [o \in ops |-> [b \in DOMAIN bk |-> Absent]]
    /\ activeSessions = [o \in ops |-> {}]
    /\ stats = [o \in ops |-> NoStats]
    /\ startingSession = [o \in ops |-> NoId]
    /\ endingSession = [o \in ops |-> 0]
    /\ pc = [o \in ops |-> "idle"]
    /\ call = [o \in ops |-> NoCall]
    /\ toast = [o \in ops |-> "none"]
    /\ budget = n
    /\ pending = [o \in subs |-> {"bookings"}]
    /\ responses = {}
    /\ lastCode = [b \in DOMAIN bk |-> NoCode]
    /\ ctx = [o \in ops |-> NoCtx]

\* the state when the operators ops, signed in with their roles, have mounted
\* their dashboards at time t
InitStore(bk, us, t, ops, n) ==
    /\ InitDashboard(bk, us, t, ops, {}, n)
    /\ user = [o \in ops |-> OperatorRole(o)]
    /\ metadata = [o \in ops |-> OperatorRole(o)]
    /\ users = [o \in ops |-> OperatorRole(o)]
    /\ authUsers = [o \in ops |-> OperatorRole(o)]

\* a guard that admits every signed-in user
Authorized_SignedIn(o) == user[o] # NoUser

\* user_metadata without a role
NoRole == "none"

\* the roles a user_metadata may carry
Roles == {"admin", "staff", "customer"}

\* role of mapSupabaseUser(session.user): metadata.role || 'customer'
mapSupabaseUser(role) == IF role = NoRole THEN "customer" ELSE role

\* onAuthStateChange((_event, session) => ...): the auth client reports the
\* session of operator o, signed out (NoUser) or with the metadata role m
onAuthStateChange(o, m) ==
    /\ m \in Roles \cup {NoRole, NoUser}
    /\ metadata' = [metadata EXCEPT ![o] = m]
    /\ user' = [user EXCEPT ![o] =
          IF m = NoUser THEN NoUser ELSE mapSupabaseUser(m)]
    /\ <<metadata[o], user[o]>>' # <<metadata[o], user[o]>>
    /\ UNCHANGED <<storeVars, now, viewVars, busyVars, pc, call, toast,
                   budget, pending, responses, lastCode, ctxVars>>

\* ------------------------------------------------------------ AuthContext
\* what the dashboards and the store hold
dashVars == <<storeVars, now, viewVars, busyVars, pc, call, toast, pending,
              responses, lastCode>>

\* an insert into users whose error is thrown
AfterProfileInsert_Throw(error, next) == IF error THEN "failed" ELSE next

\* if (insertError) console.error(...): the call goes on either way
AfterProfileInsert(error, next) == next

\* role: 'customer' of register's signUp options and of its newUser
RegisterRole == "customer"

\* login(email, password): setIsLoading(true)
login(o) ==
    /\ ctx[o].login = "idle"
    /\ budget > 0
    /\ budget' = budget - 1
    /\ ctx' = [ctx EXCEPT ![o].login = "signin", ![o].isLoading = TRUE,
                          ![o].raised = "none", ![o].userProfile = FALSE,
                          ![o].signedIn = FALSE, ![o].signedOut = FALSE]
    /\ UNCHANGED <<dashVars, user, metadata, users, authUsers>>

\* await supabase.auth.signInWithPassword: a session of the account, or an
\* error that is thrown
lgSignIn(o) ==
    /\ ctx[o].login = "signin"
    /\ \/ /\ authUsers[o] # Absent
          /\ metadata' = [metadata EXCEPT ![o] = authUsers[o]]
          /\ ctx' = [ctx EXCEPT ![o].login = "profile",
                                ![o].dataUser = authUsers[o]]
       \/ /\ ctx' = [ctx EXCEPT ![o].login = "failed"]
          /\ UNCHANGED metadata
    /\ UNCHANGED <<dashVars, budget, user, users, authUsers>>

\* await of the select of the profile row with .single(): userProfile, or
\* profileError (no row, or the read fails) and newUser from the auth data
lgProfile(o) ==
    /\ ctx[o].login = "profile"
    /\ \/ /\ users[o] # Absent
          /\ ctx' = [ctx EXCEPT ![o].login = "sync",
                                ![o].userProfile = TRUE,
                                ![o].currentUserData = users[o]]
       \/ /\ ctx' = [ctx EXCEPT ![o].login = "insert",
                ![o].currentUserData = mapSupabaseUser(ctx[o].dataUser)]
    /\ UNCHANGED <<dashVars, budget, user, metadata, users, authUsers>>

\* await of the insert of the profile row
lgInsert(o) ==
    /\ ctx[o].login = "insert"
    /\ \E error \in BOOLEAN :
          /\ IF error THEN UNCHANGED users
             ELSE /\ users[o] = Absent
                  /\ users' = [users EXCEPT ![o] = ctx[o].currentUserData]
          /\ ctx' = [ctx EXCEPT ![o].login = AfterProfileInsert(error, "sync")]
    /\ UNCHANGED <<dashVars, budget, user, metadata, authUsers>>

\* await supabase.auth.updateUser({ data: { ..., role } }): the metadata of
\* the account and of its session take the role, or the call fails
lgSync(o) ==
    /\ ctx[o].login = "sync"
    /\ \/ /\ metadata[o] # NoUser
          /\ authUsers' = [authUsers EXCEPT ![o] = ctx[o].currentUserData]
          /\ metadata' = [metadata EXCEPT ![o] = ctx[o].currentUserData]
       \/ UNCHANGED <<authUsers, metadata>>
    /\ ctx' = [ctx EXCEPT ![o].login = "set"]
    /\ UNCHANGED <<dashVars, budget, user, users>>

\* setUser(currentUserData); finally setIsLoading(false)
lgFinish(o) ==
    /\ ctx[o].login = "set"
    /\ user' = [user EXCEPT ![o] = ctx[o].currentUserData]
    /\ ctx' = [ctx EXCEPT ![o].login = "idle", ![o].isLoading = FALSE,
                          ![o].dataUser = "null",
                          ![o].currentUserData = "null",
                          ![o].signedIn = TRUE, ![o].signedOut = FALSE]
    /\ UNCHANGED <<dashVars, budget, metadata, users, authUsers>>

\* catch: throw new Error(...); finally setIsLoading(false)
lgCatch(o) ==
    /\ ctx[o].login = "failed"
    /\ ctx' = [ctx EXCEPT ![o].login = "idle", ![o].isLoading = FALSE,
                          ![o].dataUser = "null",
                          ![o].currentUserData = "null",
                          ![o].raised = "login"]
    /\ UNCHANGED <<dashVars, budget, user, metadata, users, authUsers>>

\* register(email, password, name, whatsapp): setIsLoading(true)
register(o) ==
    /\ ctx[o].register = "idle"
    /\ budget > 0
    /\ budget' = budget - 1
    /\ ctx' = [ctx EXCEPT ![o].register = "signup", ![o].isLoading = TRUE,
                          ![o].raised = "none", ![o].signedIn = FALSE,
                          ![o].signedOut = FALSE]
    /\ UNCHANGED <<dashVars, user, metadata, users, authUsers>>

\* await supabase.auth.signUp with role 'customer' in its data: the account
\* is created, with a session at once or after confirmation, or an error
\* is thrown
rgSignUp(o) ==
    /\ ctx[o].register = "signup"
    /\ \/ /\ authUsers[o] = Absent
          /\ authUsers' = [authUsers EXCEPT ![o] = RegisterRole]
          /\ \/ metadata' = [metadata EXCEPT ![o] = RegisterRole]
             \/ UNCHANGED metadata
          /\ ctx' = [ctx EXCEPT ![o].register = "insert"]
       \/ /\ ctx' = [ctx EXCEPT ![o].register = "failed"]
          /\ UNCHANGED <<authUsers, metadata>>
    /\ UNCHANGED <<dashVars, budget, user, users>>

\* await of the insert of newUser into users
rgInsert(o) ==
    /\ ctx[o].register = "insert"
    /\ \E error \in BOOLEAN :
          /\ IF error THEN UNCHANGED users
             ELSE /\ users[o] = Absent
                  /\ users' = [users EXCEPT ![o] = RegisterRole]
          /\ ctx' = [ctx EXCEPT
                ![o].register = AfterProfileInsert(error, "set")]
    /\ UNCHANGED <<dashVars, budget, user, metadata, authUsers>>

\* setUser(newUser); finally setIsLoading(false)
rgFinish(o) ==
    /\ ctx[o].register = "set"
    /\ user' = [user EXCEPT ![o] = RegisterRole]
    /\ ctx' = [ctx EXCEPT ![o].register = "idle", ![o].isLoading = FALSE,
                          ![o].signedOut = FALSE]
    /\ UNCHANGED <<dashVars, budget, metadata, users, authUsers>>

\* catch: throw new Error(...); finally setIsLoading(false)
rgCatch(o) ==
    /\ ctx[o].register = "failed"
    /\ ctx' = [ctx EXCEPT ![o].register = "idle", ![o].isLoading = FALSE,
                          ![o].raised = "register"]
    /\ UNCHANGED <<dashVars, budget, user, metadata, users, authUsers>>

\* logout()
logout(o) ==
    /\ ctx[o].logout = "idle"
    /\ budget > 0
    /\ budget' = budget - 1
    /\ ctx' = [ctx EXCEPT ![o].logout = "signout", ![o].signedIn = FALSE]
    /\ UNCHANGED <<dashVars, user, metadata, users, authUsers>>

\* await supabase.auth.signOut(): the session is removed, or the call throws
\* and the catch logs it
loSignOut(o) ==
    /\ ctx[o].logout = "signout"
    /\ \/ /\ metadata' = [metadata EXCEPT ![o] = NoUser]
          /\ ctx' = [ctx EXCEPT ![o].logout = "clear"]
       \/ /\ ctx' = [ctx EXCEPT ![o].logout = "idle"]
          /\ UNCHANGED metadata
    /\ UNCHANGED <<dashVars, budget, user, users, authUsers>>

\* setUser(null)
loFinish(o) ==
    /\ ctx[o].logout = "clear"
    /\ user' = [user EXCEPT ![o] = NoUser]
    /\ ctx' = [ctx EXCEPT ![o].logout = "idle", ![o].signedOut = TRUE]
    /\ UNCHANGED <<dashVars, budget, metadata, users, authUsers>>

\* refreshUserSession()
refreshUserSession(o) ==
    /\ ctx[o].refresh = "idle"
    /\ budget > 0
    /\ budget' = budget - 1
    /\ ctx' = [ctx EXCEPT ![o].refresh = "session"]
    /\ UNCHANGED <<dashVars, user, metadata, users, authUsers>>

\* await supabase.auth.getSession()
rfSession(o) ==
    /\ ctx[o].refresh = "session"
    /\ \/ ctx' = [ctx EXCEPT
                ![o].session = metadata[o],
                ![o].refreshed = NoUser,
                ![o].refresh = IF metadata[o] # NoUser THEN "profile"
                               ELSE "set"]
       \/ ctx' = [ctx EXCEPT ![o].refresh = "idle"]
    /\ UNCHANGED <<dashVars, budget, user, metadata, users, authUsers>>

\* await of the select of the profile row: userProfile, or profileError and
\* mapSupabaseUser(session.user)
rfProfile(o) ==
    /\ ctx[o].refresh = "profile"
    /\ \/ /\ users[o] # Absent
          /\ ctx' = [ctx EXCEPT ![o].refresh = "set",
                                ![o].refreshed = users[o]]
       \/ ctx' = [ctx EXCEPT ![o].refresh = "set",
                ![o].refreshed = mapSupabaseUser(ctx[o].session)]
    /\ UNCHANGED <<dashVars, budget, user, metadata, users, authUsers>>

\* setUser(currentUserData) or setUser(null)
rfFinish(o) ==
    /\ ctx[o].refresh = "set"
    /\ user' = [user EXCEPT ![o] = ctx[o].refreshed]
    /\ ctx' = [ctx EXCEPT ![o].refresh = "idle", ![o].session = "null",
                          ![o].refreshed = "null"]
    /\ UNCHANGED <<dashVars, budget, metadata, users, authUsers>>

\* the role guard of the dashboard: anyone else is sent to /login
Authorized(o) == user[o] \in {"admin", "staff"}

\* the re-fetch a handler asks for right after toast.success
Refetch(o) ==
    IF toast'[o] = "success" /\ toast[o] # "success"
    THEN IF call[o].page THEN {"user_sessions"} ELSE {"bookings"}
    ELSE {}

\* postgres_changes: every change of a table reaches every subscription
Changed ==
    (IF bookings' # bookings THEN {"bookings"} ELSE {})
    \cup (IF user_sessions' # user_sessions THEN {"user_sessions"} ELSE {})

\* the re-fetches that a step leaves to be done by the subscribed dashboards
Notify ==
    pending' = [o \in DOMAIN pending |-> pending[o] \cup Changed \cup Refetch(o)]

\* a bookings row in status st
BookingRow(b, st) ==
    [status |-> st,
     confirmation_code |-> IF st = "code_sent" THEN "AB12CD" ELSE NoCode,
     updated_at |-> 0, total_price |-> BookingPrice(b)]

\* the state when the operators ops have mounted their dashboards, over a
\* store holding the bookings ids, all in status st, and no session
InitWith(ids, st, ops, n) ==
    InitStore([b \in ids |-> BookingRow(b, st)], <<>>, 0, ops, n)

\* ------------------------------------------------------------------ clock
Tick ==
    /\ now + TickSeconds <= MaxTicks * TickSeconds
    /\ now' = now + TickSeconds
    /\ UNCHANGED <<storeVars, viewVars, busyVars, pc, call, toast>>
    /\ UNCHANGED <<budget, envVars>>
    /\ Notify

\* ---------------------------------------------------------------- refresh
\* bookingsData.filter(b => b.status === st).length
\* a filter that takes code_sent for pending
CountStatus_Loose(data, st) ==
    Cardinality({b \in DOMAIN data :
        \/ data[b].status = st
        \/ (st = "pending" /\ data[b].status = "code_sent")})

CountStatus(data, st) == Cardinality({b \in DOMAIN data : data[b].status = st})

\* reduce((sum, b) => sum + b.total_price, 0) over the rows ids of data
RECURSIVE SumPrice(_, _)
SumPrice(data, ids) ==
    IF ids = {} THEN 0
    ELSE LET b == CHOOSE x \in ids : TRUE
         IN  data[b].total_price + SumPrice(data, ids \ {b})

\* totalRevenue of part_000: the reduce runs over bookingsData
TotalRevenue(data) == SumPrice(data, DOMAIN data)

\* totalRevenue of pages/AdminDashboard.tsx: filter confirmed, then reduce
TotalRevenuePage(data) ==
    SumPrice(data, {b \in DOMAIN data : data[b].status = "confirmed"})

\* new Set(rows with created_at >= thirtyDaysAgo, mapped to user_id).size
UniqueActiveUsers(rows, t) ==
    Cardinality({rows[s].user_id :
        s \in {x \in 1..Len(rows) : rows[x].created_at >= t - WindowSeconds}})

\* activeUsers of pages/AdminDashboard.tsx: the count of the customers,
\* fetched for an admin only
ActiveUsersPage(o) ==
    IF user[o] = "admin" THEN Cardinality(Customers) ELSE 0

\* the status column of select('*') from bookings
BookingsData == [b \in DOMAIN bookings |-> bookings[b].status]

\* the ids of select(...).eq('status', 'active') from user_sessions
ActiveData == {s \in SessionIds : user_sessions[s].status = "active"}

\* the stats part_000 computes from the store
StatsData ==
    [totalBookings |-> Cardinality(DOMAIN bookings),
     pendingBookings |-> CountStatus(bookings, "pending"),
     confirmedBookings |-> CountStatus(bookings, "confirmed"),
     totalRevenue |-> TotalRevenue(bookings),
     activeUsers |-> UniqueActiveUsers(user_sessions, now)]

\* setActiveSessions(data || []): the list is replaced
\* a dashboard that adds the rows it receives to the list it holds
setActiveSessions_Merge(prev, data) == prev \cup data

setActiveSessions(prev, data) == data

\* fetchDashboardData of part_000: reads bookings, then fetchActiveSessions,
\* then computes the stats
fetchDashboardData(o) ==
    /\ Authorized(o)
    /\ localBookings' = [localBookings EXCEPT ![o] = BookingsData]
    /\ activeSessions' = [activeSessions EXCEPT
          ![o] = setActiveSessions(@, ActiveData)]
    /\ stats' = [stats EXCEPT ![o] = StatsData]
    /\ UNCHANGED <<storeVars, now, busyVars, pc, call, toast>>
    /\ UNCHANGED <<budget, envVars>>
    /\ Notify

\* fetchDashboardData of pages/AdminDashboard.tsx: reads bookings and
\* computes the stats
fetchDashboardDataPage(o) ==
    /\ Authorized(o)
    /\ localBookings' = [localBookings EXCEPT ![o] = BookingsData]
    /\ stats' = [stats EXCEPT ![o] =
          [totalBookings |-> Cardinality(DOMAIN bookings),
           pendingBookings |-> CountStatus(bookings, "pending"),
           confirmedBookings |-> CountStatus(bookings, "confirmed"),
           totalRevenue |-> TotalRevenuePage(bookings),
           activeUsers |-> ActiveUsersPage(o)]]
    /\ UNCHANGED <<storeVars, now, activeSessions, busyVars, pc, call, toast>>
    /\ UNCHANGED <<budget, envVars>>
    /\ Notify

\* the rows fetchActiveBookingSessions of pages/AdminDashboard.tsx selects
ActiveBookingData ==
    {s \in ActiveData : user_sessions[s].session_type = "booking"}

\* fetchActiveBookingSessions of pages/AdminDashboard.tsx
fetchActiveBookingSessions(o) ==
    /\ Authorized(o)
    /\ activeSessions' = [activeSessions EXCEPT
          ![o] = setActiveSessions(@, ActiveBookingData)]
    /\ UNCHANGED <<storeVars, now, localBookings, stats, busyVars, pc, call,
                   toast>>
    /\ UNCHANGED <<budget, envVars>>
    /\ Notify

\* fetchActiveSessions: callback of the user_sessions subscription
fetchActiveSessions(o) ==
    /\ Authorized(o)
    /\ activeSessions' = [activeSessions EXCEPT
          ![o] = setActiveSessions(@, ActiveData)]
    /\ UNCHANGED <<storeVars, now, localBookings, stats, busyVars, pc, call,
                   toast>>
    /\ UNCHANGED <<budget, envVars>>
    /\ Notify

\* ------------------------------------------------------------ change feed
\* the answer of the store to the re-fetch that a change of table causes:
\* fetchDashboardData for bookings, fetchActiveSessions for user_sessions
Answer(o, table) ==
    IF table = "bookings"
    THEN [op |-> o, table |-> table, bookings |-> BookingsData,
          active |-> ActiveData, stats |-> StatsData]
    ELSE [op |-> o, table |-> table,
          bookings |-> [b \in DOMAIN bookings |-> Absent],
          active |-> ActiveData, stats |-> NoStats]

\* the subscription callback (or the mount effect, or the handler after its
\* toast.success) calls the re-fetch, and the store reads for it
onChange(o, table) ==
    /\ Authorized(o)
    /\ table \in pending[o]
    /\ Cardinality(responses) < MaxInflight
    /\ pending' = [pending EXCEPT ![o] = @ \ {table}]
    /\ responses' = responses \cup {Answer(o, table)}
    /\ UNCHANGED <<storeVars, now, viewVars, busyVars, pc, call, toast>>
    /\ UNCHANGED <<budget, user, lastCode, metadata, ctxVars>>

\* the answer r of a re-fetch reaches the dashboard: setBookings,
\* setActiveSessions, setStats
deliver(o, r) ==
    /\ r \in responses
    /\ r.op = o
    /\ responses' = responses \ {r}
    /\ activeSessions' = [activeSessions EXCEPT
          ![o] = setActiveSessions(@, r.active)]
    /\ IF r.table = "bookings"
       THEN /\ localBookings' = [localBookings EXCEPT ![o] = r.bookings]
            /\ stats' = [stats EXCEPT ![o] = r.stats]
       ELSE UNCHANGED <<localBookings, stats>>
    /\ UNCHANGED <<storeVars, now, busyVars, pc, call, toast>>
    /\ UNCHANGED <<budget, user, pending, lastCode, metadata, ctxVars>>

\* getBookingActiveSession over the operator's local activeSessions
getBookingActiveSession(o, b) ==
    {s \in activeSessions[o] : user_sessions[s].booking_id = b}

\* ---------------------------------------------------- updateBookingStatus
\* the row buttons of a booking shown as pending
PendingTargets == {"code_sent", "confirmed", "rejected"}

\* updateData applied by .update(updateData).eq('id', bookingId)
ApplyUpdate(row, c) ==
    [row EXCEPT !.status = c.newStatus,
                !.updated_at = c.updated_at,
                !.confirmation_code =
                    IF c.confirmationCode # NoCode THEN c.confirmationCode
                    ELSE @]

\* a row that offers the three buttons whatever its status
ShowsPendingButtons_Always(o, b) == localBookings[o][b] # Absent

\* booking.status === 'pending' && (...): the row offers the three buttons
ShowsPendingButtons(o, b) == localBookings[o][b] = "pending"

\* click on Send Code / Confirm / Reject: updateData is built
updateBookingStatus(o, b, newStatus, code) ==
    /\ Authorized(o)
    /\ pc[o] = "idle"
    /\ toast[o] = "none"
    /\ ShowsPendingButtons(o, b)
    /\ newStatus \in PendingTargets
    /\ (newStatus = "code_sent") <=> (code # NoCode)
    /\ call' = [call EXCEPT ![o] =
          [NoCall EXCEPT !.bookingId = b, !.newStatus = newStatus,
                         !.confirmationCode = code,
                         !.expected = localBookings[o][b],
                         !.updated_at = now,
                         !.found = (localBookings[o][b] # Absent)]]
    /\ pc' = [pc EXCEPT ![o] = "ubs_update"]
    /\ UNCHANGED <<storeVars, now, viewVars, busyVars, toast>>
    /\ budget > 0
    /\ budget' = budget - 1
    /\ UNCHANGED envVars
    /\ Notify

\* an update without its filter
UpdateTargets_All(c) == DOMAIN bookings

\* the rows matched by .eq('id', bookingId)
UpdateTargets(c) == {c.bookingId}

\* supabase.from('bookings').update(updateData).eq('id', bookingId) at the
\* store
ubsUpdate(o) ==
    /\ pc[o] = "ubs_update"
    /\ \/ \* the store applies the update
          /\ bookings' = [b \in DOMAIN bookings |->
                IF b \in UpdateTargets(call[o])
                THEN ApplyUpdate(bookings[b], call[o]) ELSE bookings[b]]
          /\ pc' = [pc EXCEPT ![o] = "ubs_applied"]
          /\ call' = [call EXCEPT ![o].updated_at = NoTime,
                                  ![o].committed = TRUE]
       \/ \* the store answers with an error and has applied nothing
          /\ pc' = [pc EXCEPT ![o] = "ubs_failed"]
          /\ call' = [call EXCEPT ![o].updated_at = NoTime]
          /\ UNCHANGED bookings
    /\ UNCHANGED <<user_sessions, now, viewVars, busyVars, toast>>
    /\ UNCHANGED <<budget, envVars>>
    /\ Notify

\* the answer of the applied update reaches the handler: bookings.find and,
\* if (booking), the webhook fetch is issued
ubsAnswer(o) ==
    /\ pc[o] = "ubs_applied"
    /\ IF call[o].found
       THEN /\ pc' = [pc EXCEPT ![o] = "ubs_webhook"]
            /\ call' = [call EXCEPT ![o].dispatched = 1]
            /\ lastCode' = [lastCode EXCEPT ![call[o].bookingId] =
                  IF call[o].confirmationCode # NoCode
                  THEN call[o].confirmationCode ELSE @]
            /\ UNCHANGED toast
       ELSE /\ pc' = [pc EXCEPT ![o] = "idle"]
            /\ call' = [call EXCEPT ![o] = NoCall]
            /\ toast' = [toast EXCEPT ![o] = "success"]
            /\ UNCHANGED lastCode
    /\ UNCHANGED <<storeVars, now, viewVars, busyVars>>
    /\ UNCHANGED <<budget, user, responses, metadata, ctxVars>>
    /\ Notify

\* what the handler shows when a store write is answered with an error:
\* if (error) throw error, caught by the outer catch, toast.error
\* a handler that does not look at the error of the answer
AfterStoreError_Ignored == "success"

AfterStoreError == "error"

\* if (error) throw error of the update: the outer catch
ubsCatch(o) ==
    /\ pc[o] = "ubs_failed"
    /\ toast' = [toast EXCEPT ![o] = AfterStoreError]
    /\ pc' = [pc EXCEPT ![o] = "idle"]
    /\ call' = [call EXCEPT ![o] = NoCall]
    /\ UNCHANGED <<storeVars, now, viewVars, busyVars>>
    /\ UNCHANGED <<budget, envVars>>
    /\ Notify

\* the awaited webhook fetch settles
ubsWebhook(o, outcome) ==
    /\ pc[o] = "ubs_webhook"
    /\ outcome \in FetchOutcomes
    /\ call' = [call EXCEPT ![o].fetchOutcome = outcome]
    /\ pc' = [pc EXCEPT ![o] = "ubs_settled"]
    /\ UNCHANGED <<storeVars, now, viewVars, busyVars, toast>>
    /\ UNCHANGED <<budget, envVars>>
    /\ Notify

\* what the handler reports once the webhook fetch has settled: a rejection
\* is caught by the inner try/catch and logged, a response is not inspected
\* a handler whose inner catch is missing: a rejection reaches the outer one
AfterWebhook_Rethrow(outcome) ==
    IF outcome \in {"rejected", "payload_error"} THEN "error" ELSE "success"

AfterWebhook(outcome) == "success"

\* whether the handler issues the webhook fetch again once it has settled:
\* the inner catch only logs, and the response is not read
\* a handler that repeats a rejected fetch
Redispatch_Rejected(outcome) == outcome = "rejected"

Redispatch(outcome) == FALSE

\* the continuation after the inner try/catch: toast.success
ubsFinish(o) ==
    /\ pc[o] = "ubs_settled"
    /\ IF Redispatch(call[o].fetchOutcome)
       THEN /\ pc' = [pc EXCEPT ![o] = "ubs_webhook"]
            /\ call' = [call EXCEPT ![o].fetchOutcome = "null",
                                    ![o].dispatched = @ + 1]
            /\ UNCHANGED toast
       ELSE /\ toast' = [toast EXCEPT
                  ![o] = AfterWebhook(call[o].fetchOutcome)]
            /\ pc' = [pc EXCEPT ![o] = "idle"]
            /\ call' = [call EXCEPT ![o] = NoCall]
    /\ UNCHANGED <<storeVars, now, viewVars, busyVars>>
    /\ UNCHANGED <<budget, envVars>>
    /\ Notify

\* a toast disappears after its display time
toastDismiss(o) ==
    /\ toast[o] # "none"
    /\ toast' = [toast EXCEPT ![o] = "none"]
    /\ UNCHANGED <<storeVars, now, viewVars, busyVars, pc, call>>
    /\ UNCHANGED <<budget, envVars>>
    /\ Notify

\* ---------------------------------------------------- startBookingSession
\* result of .maybeSingle() over the matching rows: the row when there is
\* exactly one, null when there is none; several rows give error PGRST116
\* with null data, which the handler ignores
maybeSingle(rows) ==
    IF Cardinality(rows) = 1 THEN CHOOSE s \in rows : TRUE ELSE 0

\* a check of the page that looks at the booking instead of the user
CheckRows_Booking(c) == SessionsOfBooking(c.bookingId)

\* rows matched by the existence check of the handler
CheckRows(c) ==
    IF c.page
    THEN {s \in SessionIds : /\ user_sessions[s].user_id = c.userId
                             /\ user_sessions[s].status = "active"}
    ELSE SessionsOfBooking(c.bookingId)

\* the check refuses the start
Refuses(c, existingSession) ==
    IF c.page
    THEN existingSession # 0
    ELSE existingSession # 0 /\ user_sessions[existingSession].status = "active"

\* .insert({...}) into user_sessions; start_time and created_at default to
\* the store's now
NewSession(c, o) ==
    [user_id |-> c.userId, booking_id |-> c.bookingId,
     session_type |-> "booking", started_by |-> o, status |-> "active",
     start_time |-> now, created_at |-> now, end_time |-> NoTime,
     duration_minutes |-> -1,
     ended_by |-> NoId, confirmation_required |-> FALSE]

\* the row of a session that operator o started for booking b at time t
StartedRow(b, o, t) ==
    [user_id |-> BookingUser(b), booking_id |-> b,
     session_type |-> "booking", started_by |-> o, status |-> "active",
     start_time |-> t, created_at |-> t, end_time |-> NoTime,
     duration_minutes |-> -1,
     ended_by |-> NoId, confirmation_required |-> FALSE]

\* a start that reuses the booking's existing row instead of adding one
InsertSession_Reuse(rows, row) ==
    LET old == {s \in 1..Len(rows) : rows[s].booking_id = row.booking_id}
    IN  IF old = {} THEN Append(rows, row)
        ELSE [rows EXCEPT ![CHOOSE s \in old : TRUE] = row]

InsertSession(rows, row) == Append(rows, row)

\* click on Start Session in the dashboard of part_000
startBookingSession(o, b) ==
    /\ Authorized(o)
    /\ pc[o] = "idle"
    /\ toast[o] = "none"
    /\ localBookings[o][b] = "confirmed"
    /\ getBookingActiveSession(o, b) = {}
    /\ startingSession[o] # b
    /\ startingSession' = [startingSession EXCEPT ![o] = b]
    /\ call' = [call EXCEPT ![o] =
          [NoCall EXCEPT !.bookingId = b, !.page = FALSE,
                         !.userId = IF BookingUser(b) # NoId
                                    THEN BookingUser(b) ELSE o]]
    /\ pc' = [pc EXCEPT ![o] = "sbs_check"]
    /\ UNCHANGED <<storeVars, now, viewVars, endingSession, toast>>
    /\ budget > 0
    /\ budget' = budget - 1
    /\ UNCHANGED envVars
    /\ Notify

\* startBookingSession(booking.id, booking.user_id) of
\* pages/AdminDashboard.tsx, from a row shown as confirmed and not active;
\* the handler returns at once when it is given no user
startBookingSessionPage(o, b) ==
    /\ Authorized(o)
    /\ pc[o] = "idle"
    /\ toast[o] = "none"
    /\ localBookings[o][b] = "confirmed"
    /\ getBookingActiveSession(o, b) = {}
    /\ startingSession[o] # b
    /\ IF BookingUser(b) = NoId
       THEN /\ toast' = [toast EXCEPT ![o] = "error"]
            /\ UNCHANGED <<startingSession, call, pc>>
       ELSE /\ startingSession' = [startingSession EXCEPT ![o] = b]
            /\ call' = [call EXCEPT ![o] =
                  [NoCall EXCEPT !.bookingId = b, !.page = TRUE,
                                 !.userId = BookingUser(b)]]
            /\ pc' = [pc EXCEPT ![o] = "sbs_check"]
            /\ UNCHANGED toast
    /\ UNCHANGED <<storeVars, now, viewVars, endingSession>>
    /\ budget > 0
    /\ budget' = budget - 1
    /\ UNCHANGED envVars
    /\ Notify

\* a handler without its finally block
ClearStarting_Skipped(o) == startingSession

\* finally { setStartingSession(null) }
ClearStarting(o) == [startingSession EXCEPT ![o] = NoId]

\* await of the existence check
sbsCheck(o) ==
    /\ pc[o] = "sbs_check"
    /\ \/ \* the select answers
          LET existingSession == maybeSingle(CheckRows(call[o])) IN
          IF Refuses(call[o], existingSession)
          THEN /\ toast' = [toast EXCEPT ![o] = "error"]
               /\ pc' = [pc EXCEPT ![o] = "idle"]
               /\ call' = [call EXCEPT ![o] = NoCall]
               /\ startingSession' = ClearStarting(o)
          ELSE /\ pc' = [pc EXCEPT ![o] = "sbs_insert"]
               /\ UNCHANGED <<toast, call, startingSession>>
       \/ \* the select fails with another error: thrown
          /\ toast' = [toast EXCEPT ![o] = "error"]
          /\ pc' = [pc EXCEPT ![o] = "idle"]
          /\ call' = [call EXCEPT ![o] = NoCall]
          /\ startingSession' = ClearStarting(o)
    /\ UNCHANGED <<storeVars, now, viewVars, endingSession>>
    /\ UNCHANGED <<budget, envVars>>
    /\ Notify

\* await of the insert, then toast.success and finally
sbsInsert(o) ==
    /\ pc[o] = "sbs_insert"
    /\ \/ \* the store inserts the row
          /\ user_sessions' =
                InsertSession(user_sessions, NewSession(call[o], o))
          /\ toast' = [toast EXCEPT ![o] = "success"]
          /\ pc' = [pc EXCEPT ![o] = "idle"]
          /\ call' = [call EXCEPT ![o] = NoCall]
          /\ startingSession' = ClearStarting(o)
       \/ \* the store answers with an error and has inserted nothing
          /\ pc' = [pc EXCEPT ![o] = "sbs_failed"]
          /\ UNCHANGED <<user_sessions, toast, call, startingSession>>
    /\ UNCHANGED <<bookings, now, viewVars, endingSession>>
    /\ UNCHANGED <<budget, envVars>>
    /\ Notify

\* if (error) throw error of the insert: the outer catch and finally
sbsCatch(o) ==
    /\ pc[o] = "sbs_failed"
    /\ toast' = [toast EXCEPT ![o] = AfterStoreError]
    /\ pc' = [pc EXCEPT ![o] = "idle"]
    /\ call' = [call EXCEPT ![o] = NoCall]
    /\ startingSession' = ClearStarting(o)
    /\ UNCHANGED <<storeVars, now, viewVars, endingSession>>
    /\ UNCHANGED <<budget, envVars>>
    /\ Notify

\* ------------------------------------------------------ endBookingSession
\* click on End Session of the row's active session
endBookingSession(o, s) ==
    /\ Authorized(o)
    /\ pc[o] = "idle"
    /\ toast[o] = "none"
    /\ s \in activeSessions[o]
    /\ localBookings[o][user_sessions[s].booking_id] # Absent
    /\ endingSession[o] # s
    /\ endingSession' = [endingSession EXCEPT ![o] = s]
    /\ call' = [call EXCEPT ![o] = [NoCall EXCEPT !.sessionId = s]]
    /\ pc' = [pc EXCEPT ![o] = "ebs_read"]
    /\ UNCHANGED <<storeVars, now, viewVars, startingSession, toast>>
    /\ budget > 0
    /\ budget' = budget - 1
    /\ UNCHANGED envVars
    /\ Notify

\* the outer catch and finally of endBookingSession
ebsThrow(o) ==
    /\ toast' = [toast EXCEPT ![o] = "error"]
    /\ pc' = [pc EXCEPT ![o] = "idle"]
    /\ call' = [call EXCEPT ![o] = NoCall]
    /\ endingSession' = [endingSession EXCEPT ![o] = 0]

\* await of the select of the session with its booking; endTime = new Date()
ebsRead(o) ==
    /\ pc[o] = "ebs_read"
    /\ \/ LET session == user_sessions[call[o].sessionId] IN
          /\ call' = [call EXCEPT
                ![o].start_time = session.start_time,
                ![o].userId = session.user_id,
                ![o].joined = (session.booking_id \in DOMAIN bookings),
                ![o].endTime = now,
                ![o].durationMinutes = CeilMinutes(now - session.start_time)]
          /\ pc' = [pc EXCEPT ![o] = "ebs_update"]
          /\ UNCHANGED <<toast, endingSession>>
       \/ ebsThrow(o)
    /\ UNCHANGED <<storeVars, now, viewVars, startingSession>>
    /\ UNCHANGED <<budget, envVars>>
    /\ Notify

\* a patch that also restarts the session's clock
EndPatch_Restart(row, c, o) ==
    [row EXCEPT !.end_time = c.endTime,
                !.start_time = c.endTime,
                !.duration_minutes = c.durationMinutes,
                !.status = "completed",
                !.ended_by = o,
                !.confirmation_required = TRUE]

\* the patch of .update({...}).eq('id', sessionId)
EndPatch(row, c, o) ==
    [row EXCEPT !.end_time = c.endTime,
                !.duration_minutes = c.durationMinutes,
                !.status = "completed",
                !.ended_by = o,
                !.confirmation_required = TRUE]

\* await of the update of the session
ebsUpdate(o) ==
    /\ pc[o] = "ebs_update"
    /\ \/ /\ user_sessions' = [user_sessions EXCEPT
                ![call[o].sessionId] = EndPatch(@, call[o], o)]
          /\ pc' = [pc EXCEPT ![o] = "ebs_webhook"]
          /\ call' = [call EXCEPT ![o].start_time = NoTime,
                                  ![o].endTime = NoTime,
                                  ![o].durationMinutes = -1,
                                  ![o].committed = TRUE,
                                  ![o].dispatched = 1]
       \/ \* the store answers with an error and has applied nothing
          /\ pc' = [pc EXCEPT ![o] = "ebs_failed"]
          /\ call' = [call EXCEPT ![o].start_time = NoTime,
                                  ![o].endTime = NoTime,
                                  ![o].durationMinutes = -1]
          /\ UNCHANGED user_sessions
    /\ UNCHANGED <<bookings, now, viewVars, busyVars, toast>>
    /\ UNCHANGED <<budget, envVars>>
    /\ Notify

\* if (updateError) throw updateError: the outer catch and finally
ebsCatch(o) ==
    /\ pc[o] = "ebs_failed"
    /\ toast' = [toast EXCEPT ![o] = AfterStoreError]
    /\ pc' = [pc EXCEPT ![o] = "idle"]
    /\ call' = [call EXCEPT ![o] = NoCall]
    /\ endingSession' = [endingSession EXCEPT ![o] = 0]
    /\ UNCHANGED <<storeVars, now, viewVars, startingSession>>
    /\ UNCHANGED <<budget, envVars>>
    /\ Notify

\* the payload is built (session.booking is dereferenced) and the awaited
\* webhook fetch settles; an exception of either is caught by the inner catch
ebsWebhook(o, outcome) ==
    /\ pc[o] = "ebs_webhook"
    /\ outcome \in FetchOutcomes \cup {"payload_error"}
    /\ (outcome = "payload_error") <=> ~call[o].joined
    /\ call' = [call EXCEPT ![o].fetchOutcome = outcome]
    /\ pc' = [pc EXCEPT ![o] = "ebs_settled"]
    /\ UNCHANGED <<storeVars, now, viewVars, busyVars, toast>>
    /\ UNCHANGED <<budget, envVars>>
    /\ Notify

\* the continuation after the inner try/catch: toast.success, finally
ebsFinish(o) ==
    /\ pc[o] = "ebs_settled"
    /\ IF Redispatch(call[o].fetchOutcome)
       THEN /\ pc' = [pc EXCEPT ![o] = "ebs_webhook"]
            /\ call' = [call EXCEPT ![o].fetchOutcome = "null",
                                    ![o].dispatched = @ + 1]
            /\ UNCHANGED <<toast, endingSession>>
       ELSE /\ toast' = [toast EXCEPT
                  ![o] = AfterWebhook(call[o].fetchOutcome)]
            /\ pc' = [pc EXCEPT ![o] = "idle"]
            /\ call' = [call EXCEPT ![o] = NoCall]
            /\ endingSession' = [endingSession EXCEPT ![o] = 0]
    /\ UNCHANGED <<storeVars, now, viewVars, startingSession>>
    /\ UNCHANGED <<budget, envVars>>
    /\ Notify

\* ----------------------------------------------------------------- claims
\* the transition graph of the booking status
Allowed ==
    {<<"pending", "code_sent">>, <<"pending", "confirmed">>,
     <<"pending", "rejected">>, <<"code_sent", "confirmed">>,
     <<"code_sent", "rejected">>, <<"pending", "cancelled">>,
     <<"code_sent", "cancelled">>, <<"confirmed", "cancelled">>}

\* operator o's store update of updateBookingStatus is answered in this step
UpdateAnswered(o) == pc[o] = "ubs_update" /\ pc'[o] # "ubs_update"

\* C1: every change of a booking's stored status is an edge of the allowed
\* transition graph, measured against the status stored when it commits.
C1_OnlyAllowedTransitions ==
    [][\A b \in DOMAIN bookings :
          bookings'[b].status # bookings[b].status
          => <<bookings[b].status, bookings'[b].status>> \in Allowed]_vars

\* C2: of two overlapping updateBookingStatus calls on one booking whose
\* operators observed the same status, at most one commits: never are both
\* past their store update at the same time.
C2_OneWinner ==
    \A o1 \in Online : \A o2 \in Online \ {o1} :
        ~ /\ pc[o1] = "ubs_webhook" /\ pc[o2] = "ubs_webhook"
          /\ call[o1].bookingId = call[o2].bookingId
          /\ call[o1].expected = call[o2].expected

\* C3: an updateBookingStatus issued from a stale view (the status the
\* operator saw differs from the stored one) fails and leaves the stored
\* booking (status, updated_at, confirmation_code) unchanged.
C3_StaleFailsConflict ==
    [][\A o \in Online :
          (/\ UpdateAnswered(o)
           /\ call[o].expected # bookings[call[o].bookingId].status)
          => (bookings' = bookings /\ pc'[o] = "ubs_failed")]_vars

\* C4: every booking has at most one user_sessions row with status active.
C4_AtMostOneActive ==
    \A b \in DOMAIN bookings : Cardinality(ActiveOfBooking(b)) <= 1

\* C5: the existence check and the insert of startBookingSession act as one
\* atomic step: no insert commits while the store already holds an active
\* session of that booking (the loser of two concurrent starts inserts
\* nothing).
C5_AtomicConditionalInsert ==
    [][\A o \in Online :
          (pc[o] = "sbs_insert" /\ Len(user_sessions') > Len(user_sessions))
          => ActiveOfBooking(call[o].bookingId) = {}]_vars

\* C6: endBookingSession takes effect once per session: an end whose update
\* reaches a session that is already completed fails and leaves the stored
\* end_time, duration_minutes, ended_by and status unchanged.
C6_EndOnlyOnce ==
    [][\A o \in Online :
          (/\ pc[o] = "ebs_update" /\ pc'[o] # "ebs_update"
           /\ user_sessions[call[o].sessionId].status = "completed")
          => (user_sessions' = user_sessions /\ pc'[o] = "ebs_failed")]_vars

\* C7: a session row with status completed keeps status completed in every
\* later state; no handler turns it back to active.
C7_CompletedStaysCompleted ==
    [][\A s \in SessionIds :
          user_sessions[s].status = "completed"
          => /\ s <= Len(user_sessions')
             /\ user_sessions'[s].status = "completed"]_vars

\* a completed session whose booking was started again afterwards
C7_Witness ==
    \E s \in SessionIds, t \in SessionIds :
        /\ s < t
        /\ user_sessions[s].booking_id = user_sessions[t].booking_id
        /\ user_sessions[s].status = "completed"
        /\ user_sessions[t].status = "active"
        /\ user_sessions[t].start_time >= user_sessions[s].end_time

\* C8: a booking's confirmation_code is written once and never changes
\* afterwards, also when two operators both press Send Code.
C8_CodeWrittenOnce ==
    [][\A b \in DOMAIN bookings :
          bookings[b].confirmation_code # NoCode
          => bookings'[b].confirmation_code = bookings[b].confirmation_code]_vars

\* C9: a booking carries a confirmation_code only while its status is
\* code_sent or confirmed.
C9_CodeOnlyWhenSentOrConfirmed ==
    \A b \in DOMAIN bookings :
        bookings[b].confirmation_code # NoCode
        => bookings[b].status \in {"code_sent", "confirmed"}

\* outcomes of a dispatch that count as its failure
DispatchFailures == {"resolved_non2xx", "rejected", "payload_error"}

\* C10: a failed webhook dispatch after a committed transition or a committed
\* session end changes nothing of the operation's outcome: the handler still
\* reports success, and neither the dispatch nor the rest of the handler
\* writes to the store (nothing is rolled back).
C10_DispatchFailureAbsorbed ==
    [][\A o \in Online :
          /\ (pc[o] \in {"ubs_webhook", "ebs_webhook"} /\ pc'[o] # pc[o])
             => (bookings' = bookings /\ user_sessions' = user_sessions)
          /\ (/\ pc[o] \in {"ubs_settled", "ebs_settled"}
              /\ call[o].fetchOutcome \in DispatchFailures
              /\ pc'[o] # pc[o])
             => /\ toast'[o] = "success"
                /\ pc'[o] = "idle"
                /\ bookings' = bookings
                /\ user_sessions' = user_sessions]_vars

\* a session end is committed and its webhook fetch has been rejected
C10_Witness ==
    \E o \in Online :
        /\ pc[o] = "ebs_settled"
        /\ call[o].fetchOutcome = "rejected"
        /\ user_sessions[call[o].sessionId].status = "completed"

\* the operators of the single-dashboard behaviours
Single == {"op1"}

\* C11: the webhook dispatch is detached from the mutation: once the store
\* has committed, updateBookingStatus and endBookingSession complete (report
\* success, clear endingSession) also when the webhook endpoint never
\* answers; every handler that waits for its webhook fetch gets back to idle.
C11_CompletesWithoutWebhook ==
    \A o \in Single :
        (pc[o] \in {"ubs_webhook", "ebs_webhook"}) ~> (pc[o] = "idle")

\* C12: startBookingSession inserts a session only for a booking that exists
\* in the store with stored status confirmed at the time of the insert; a
\* booking rejected by another operator after this operator's view was
\* loaded gets no session.
C12_StartNeedsStoredConfirmed ==
    [][\A o \in Online :
          (pc[o] = "sbs_insert" /\ Len(user_sessions') > Len(user_sessions))
          => /\ call[o].bookingId \in DOMAIN bookings
             /\ bookings[call[o].bookingId].status = "confirmed"]_vars

\* C13: every committed transition, session start and session end is
\* followed by a dispatch attempt: no handler returns from a call that
\* committed a mutation without having issued a webhook fetch for it.
C13_CommitIsDispatched ==
    [][\A o \in Online :
          (/\ pc[o] # "idle" /\ pc'[o] = "idle"
           /\ (call[o].committed \/ storeVars' # storeVars))
          => call[o].dispatched >= 1]_vars

\* C14: a handler call issues at most one webhook fetch for the mutation it
\* committed and none without a commit; a failed fetch is not repeated, so
\* the webhook calls never outnumber the committed mutations.
C14_AtMostOnceDispatch ==
    \A o \in Online :
        call[o].dispatched <= (IF call[o].committed THEN 1 ELSE 0)

\* a committed transition whose only webhook fetch has been rejected
C14_Witness ==
    \E o \in Online :
        /\ pc[o] = "ubs_settled"
        /\ call[o].fetchOutcome = "rejected"
        /\ call[o].committed
        /\ call[o].dispatched = 1

\* the handler holds an answer of a store write that carries an error
Failed == {"ubs_failed", "sbs_failed", "ebs_failed"}

\* C15: when the store answers the write of updateBookingStatus,
\* startBookingSession or endBookingSession with an error, the operation is
\* aborted: the failure is reported and no success, no webhook fetch is
\* issued, and the stored bookings and sessions are left unchanged.
C15_StoreErrorAborts ==
    [][\A o \in Online :
          /\ (pc[o] \notin Failed /\ pc'[o] \in Failed)
             => (bookings' = bookings /\ user_sessions' = user_sessions)
          /\ (pc[o] \in Failed /\ pc'[o] # pc[o])
             => /\ toast'[o] = "error"
                /\ pc'[o] = "idle"
                /\ call[o].dispatched = 0
                /\ bookings' = bookings
                /\ user_sessions' = user_sessions]_vars

\* the update of a session end was answered with an error
C15_Witness ==
    \E o \in Online :
        /\ pc[o] = "ebs_failed"
        /\ user_sessions[call[o].sessionId].status = "active"

\* C16: the stored duration_minutes of a completed session is the ceiling
\* of the elapsed minutes between its start_time and its end_time: 125 s give
\* 3, an exact multiple of 60 s gives that number of minutes, 0 s give 0.
C16_DurationIsCeiling ==
    \A s \in SessionIds :
        user_sessions[s].status = "completed"
        => LET e == user_sessions[s].end_time - user_sessions[s].start_time
               d == user_sessions[s].duration_minutes
           IN  /\ d * 60 >= e
               /\ (d - 1) * 60 < e
               /\ (e = 125) => (d = 3)
               /\ (e % 60 = 0) => (d = e \div 60)
               /\ (e = 0) => (d = 0)

\* a session ended 125 seconds after its start is stored with 3 minutes
C16_Witness ==
    \E s \in SessionIds :
        /\ user_sessions[s].status = "completed"
        /\ user_sessions[s].end_time - user_sessions[s].start_time = 125
        /\ user_sessions[s].duration_minutes = 3

\* C17: the end_time and duration_minutes stored by endBookingSession are
\* those of the moment the update commits, not of the moment the session
\* was read.
C17_EndTimeAtCommit ==
    [][\A o \in Online :
          (pc[o] = "ebs_update" /\ pc'[o] = "ebs_webhook")
          => LET s == call[o].sessionId IN
             /\ user_sessions'[s].end_time = now
             /\ user_sessions'[s].duration_minutes =
                   CeilMinutes(now - user_sessions[s].start_time)]_vars

\* the bookings of operator o's snapshot that it holds in status st
Seen(o, st) == {b \in DOMAIN localBookings[o] : localBookings[o][b] = st}

\* operator o's dashboard has loaded its snapshot
Loaded(o) == \A b \in DOMAIN localBookings[o] : localBookings[o][b] # Absent

\* C18: totalRevenue is the sum of total_price over exactly the bookings of
\* the snapshot whose status is confirmed; bookings in any other status
\* contribute nothing (confirmed 100, 200, 300 and pending 50 give 600).
C18_RevenueOfConfirmed ==
    \A o \in Online :
        stats[o].totalRevenue = SumPrice(bookings, Seen(o, "confirmed"))

\* C19: totalBookings is the number of bookings of the snapshot,
\* pendingBookings the number of those in status pending, confirmedBookings
\* the number of those in status confirmed; code_sent, rejected and
\* cancelled bookings count toward the total only; an empty or missing
\* snapshot gives 0 for all three.
C19_BookingCounts ==
    \A o \in Online :
        /\ stats[o].totalBookings =
              Cardinality(DOMAIN localBookings[o] \ Seen(o, Absent))
        /\ stats[o].pendingBookings = Cardinality(Seen(o, "pending"))
        /\ stats[o].confirmedBookings = Cardinality(Seen(o, "confirmed"))

\* a loaded snapshot of four bookings: one pending, one confirmed, one
\* code_sent and one rejected or cancelled
C19_Witness ==
    \E o \in Online :
        /\ Loaded(o)
        /\ Cardinality(Seen(o, "code_sent")) = 1
        /\ Cardinality(Seen(o, "rejected") \cup Seen(o, "cancelled")) = 1
        /\ stats[o].totalBookings = 4
        /\ stats[o].pendingBookings = 1
        /\ stats[o].confirmedBookings = 1

\* C20: the active-user statistic is the number of distinct users among the
\* sessions whose start_time lies within the trailing 30 days: a user with
\* several such sessions counts once, a user whose sessions all started
\* earlier does not count.
C20_ActiveUsersOfWindow ==
    \A o \in Online :
        Loaded(o)
        => stats[o].activeUsers =
              Cardinality({user_sessions[s].user_id :
                  s \in {x \in SessionIds :
                      user_sessions[x].start_time >= now - WindowSeconds}})

\* C22: the successful update of endBookingSession writes end_time,
\* duration_minutes, ended_by, status = completed and confirmation_required
\* = true on the target session in one step of the store, and leaves the
\* session's user_id, booking_id, session_type and start_time, every other
\* session and every booking as they were.
C22_EndWritesOnlyItsFields ==
    [][\A o \in Online :
          (pc[o] = "ebs_update" /\ pc'[o] = "ebs_webhook")
          => LET s == call[o].sessionId
                 old == user_sessions[s]
                 new == user_sessions'[s]
             IN  /\ new.end_time = call[o].endTime
                 /\ new.duration_minutes = call[o].durationMinutes
                 /\ new.ended_by = o
                 /\ new.status = "completed"
                 /\ new.confirmation_required = TRUE
                 /\ new.user_id = old.user_id
                 /\ new.booking_id = old.booking_id
                 /\ new.session_type = old.session_type
                 /\ new.start_time = old.start_time
                 /\ new.started_by = old.started_by
                 /\ new.created_at = old.created_at
                 /\ Len(user_sessions') = Len(user_sessions)
                 /\ \A x \in SessionIds \ {s} :
                        user_sessions'[x] = user_sessions[x]
                 /\ bookings' = bookings
      ]_vars

\* an end has been committed while the booking has another session
C22_Witness ==
    \E o \in Online :
        /\ pc[o] = "ebs_webhook"
        /\ call[o].committed
        /\ user_sessions[call[o].sessionId].status = "completed"
        /\ user_sessions[call[o].sessionId].confirmation_required
        /\ Len(user_sessions) > 1

\* C23: no operation deletes a booking or a session: the booking ids of the
\* store and its session rows never get fewer; and the store's update of
\* updateBookingStatus changes only status, updated_at and, when a code is
\* supplied, confirmation_code of the one targeted booking: its other fields,
\* its code when none is supplied, and all other bookings stay as they were.
C23_UpdateFrame ==
    [][/\ DOMAIN bookings \subseteq DOMAIN bookings'
       /\ Len(user_sessions') >= Len(user_sessions)
       /\ \A o \in Online :
             (pc[o] = "ubs_update" /\ pc'[o] = "ubs_applied")
             => LET b == call[o].bookingId IN
                /\ bookings'[b].status = call[o].newStatus
                /\ bookings'[b].updated_at = call[o].updated_at
                /\ bookings'[b].total_price = bookings[b].total_price
                /\ bookings'[b].confirmation_code =
                      IF call[o].confirmationCode # NoCode
                      THEN call[o].confirmationCode
                      ELSE bookings[b].confirmation_code
                /\ \A x \in DOMAIN bookings \ {b} : bookings'[x] = bookings[x]
                /\ user_sessions' = user_sessions
       /\ (bookings' # bookings)
          => \E o \in Online : pc[o] = "ubs_update" /\ pc'[o] = "ubs_applied"
      ]_vars

\* an update of one booking has been applied while the other booking holds
\* a status of its own
C23_Witness ==
    \E o \in Online :
        /\ pc[o] = "ubs_applied"
        /\ call[o].committed
        /\ \E x \in DOMAIN bookings \ {call[o].bookingId} :
              bookings[x].status # bookings[call[o].bookingId].status

\* C25: the existence check of startBookingSession of part_000 refuses the
\* start whenever the store holds an active session of the booking at the
\* time of the check, whatever other sessions the booking has: the handler
\* then returns and nothing is inserted.
C25_ActiveRefusesStart ==
    [][\A o \in Single :
          (/\ pc[o] = "sbs_check"
           /\ ~call[o].page
           /\ ActiveOfBooking(call[o].bookingId) # {}
           /\ pc'[o] # "sbs_check")
          => (pc'[o] = "idle" /\ user_sessions' = user_sessions)
      ]_vars

\* C26: once no call of updateBookingStatus is under way, the code carried
\* by the most recently dispatched confirmation-code notification of a
\* booking is the confirmation_code the store holds for it, however the
\* calls of two operators on the booking were interleaved.
C26_LastCodeIsStored ==
    (\A o \in Online : pc[o] = "idle")
    => \A b \in DOMAIN bookings :
          lastCode[b] # NoCode => lastCode[b] = bookings[b].confirmation_code

\* the active sessions of user u
ActiveOfUser(u) ==
    {s \in SessionIds : /\ user_sessions[s].user_id = u
                        /\ user_sessions[s].status = "active"}

Offered ==
    {<<"pending", "code_sent">>, <<"pending", "confirmed">>,
     <<"pending", "rejected">>}

C29_MarkersReleased ==
    \A o \in Single :
        /\ [](pc[o] = "idle" => (startingSession[o] = NoId /\ endingSession[o] = 0))
        /\ (startingSession[o] # NoId) ~> (startingSession[o] = NoId)
        /\ (endingSession[o] # 0)
              ~> (endingSession[o] = 0 \/ pc[o] = "ebs_webhook")
        /\ (pc[o] = "ebs_settled") ~> (endingSession[o] = 0)
        /\ [](\A b \in {"b1"} :
                startingSession[o] = b
                => ~ENABLED (startBookingSession(o, b)
                             \/ startBookingSessionPage(o, b)))
        /\ [](\A s \in 1..MaxCalls :
                endingSession[o] = s => ~ENABLED endBookingSession(o, s))

\* a start has been refused or has failed and an end has returned: the
\* operator is idle again
C29_Witness ==
    /\ pc["op1"] = "idle"
    /\ toast["op1"] = "error"
    /\ startingSession["op1"] = NoId
    /\ endingSession["op1"] = 0
    /\ Len(user_sessions) = 1
    /\ budget = 0

\* the bookings, active sessions and stats operator o holds
View(o) == <<localBookings[o], activeSessions[o], stats[o]>>

C31_RoleIsProfileRole ==
    \A o \in Single :
        (/\ ctx[o].signedIn
         /\ ctx[o].userProfile
         /\ ctx[o].logout = "idle"
         /\ metadata[o] # NoUser
         /\ users[o] # Absent)
        => user[o] = users[o]

\* C32: once logout has completed the context's user is null, and it stays
\* null as long as no login or register is called or completes and no
\* session exists, also when a refreshUserSession that began before the
\* logout finishes after it.
C32_NullAfterLogout ==
    \A o \in Single :
        (/\ ctx[o].signedOut
         /\ ctx[o].logout = "idle"
         /\ metadata[o] = NoUser
         /\ ctx[o].login = "idle"
         /\ ctx[o].register = "idle")
        => user[o] = NoUser

\* C33: login and register reset isLoading to false when they finish, on
\* success and on every failure; only a failed sign-in or sign-up makes them
\* fail, the error is raised to the caller and user is left as it was; a
\* failed insert of the profile row lets the call go on to its successful
\* end; register gives the account, the profile row it inserts and the
\* context's user the role customer.
C33_LoadingResetErrorsRaised ==
    [][\A o \in Single :
          LET c == ctx[o]
              d == ctx'[o]
          IN  /\ (c.login # "idle" /\ d.login = "idle") => ~d.isLoading
              /\ (c.register # "idle" /\ d.register = "idle") => ~d.isLoading
              /\ (d.login = "failed" /\ c.login # "failed")
                 => (c.login = "signin" /\ user' = user)
              /\ (d.register = "failed" /\ c.register # "failed")
                 => (c.register = "signup" /\ user' = user)
              /\ (c.login = "failed" /\ d.login = "idle")
                 => (d.raised = "login" /\ user' = user)
              /\ (c.register = "failed" /\ d.register = "idle")
                 => (d.raised = "register" /\ user' = user)
              /\ (c.login = "insert" /\ d.login # "insert")
                 => d.login = "sync"
              /\ (c.register = "insert" /\ d.register # "insert")
                 => d.register = "set"
              /\ (c.login = "set" /\ d.login = "idle")
                 => (d.raised = c.raised /\ user'[o] = c.currentUserData)
              /\ (c.register = "set" /\ d.register = "idle")
                 => (d.raised = c.raised /\ user'[o] = "customer")
              /\ (c.register = "signup" /\ d.register = "insert")
                 => authUsers'[o] = "customer"
              /\ (c.register = "insert" /\ users'[o] # users[o])
                 => users'[o] = "customer"
      ]_vars

\* a login or register has ended well although its profile row was not
\* inserted, and a login has failed at its sign-in and left the user in
\* place
C33_Witness ==
    /\ ctx["op1"].raised = "login"
    /\ ctx["op1"].login = "idle"
    /\ ctx["op1"].register = "idle"
    /\ ~ctx["op1"].isLoading
    /\ authUsers["op1"] = RegisterRole
    /\ users["op1"] = Absent
    /\ user["op1"] = "customer"
    /\ budget = MaxAuthCalls - 2

\* C21: an observer handles a change event only by re-reading the store:
\* every answer of a re-fetch carries the store's contents of the moment it
\* was read, a view changes only when such an answer arrives, and it then
\* holds exactly what the answer carries, whatever it held before; handling
\* the same event twice with no commit in between therefore gives what
\* handling it once gives, the store's contents.
C21_RefetchIsIdempotent ==
    [][/\ \A r \in responses' \ responses :
             /\ r.active = ActiveData
             /\ (r.table = "bookings")
                => (r.bookings = BookingsData /\ r.stats = StatsData)
       /\ \A r \in responses \ responses' :
             /\ activeSessions'[r.op] = r.active
             /\ IF r.table = "bookings"
                THEN localBookings'[r.op] = r.bookings /\ stats'[r.op] = r.stats
                ELSE /\ localBookings'[r.op] = localBookings[r.op]
                     /\ stats'[r.op] = stats[r.op]
       /\ \A o \in Online :
             (View(o)' # View(o)) => (\E r \in responses \ responses' : r.op = o)
      ]_vars

\* the answer of a second re-fetch with no commit in between is on its way
\* to a dashboard that already holds the store's contents
C21_Witness ==
    \E r \in responses :
        /\ r.table = "bookings"
        /\ r.bookings = BookingsData
        /\ r.active = ActiveData
        /\ localBookings[r.op] = r.bookings
        /\ activeSessions[r.op] = r.active
        /\ ActiveData # {}

\* all re-fetches are done: no change is left to be handled, no answer is
\* on its way and no handler is running
Quiet ==
    /\ responses = {}
    /\ \A o \in DOMAIN pending : pending[o] = {} /\ pc[o] = "idle"

\* C24: once the commits have stopped and every change event and every
\* re-fetch it caused has completed, each operator's local bookings and
\* active sessions equal the store's contents, also when the answers of
\* several re-fetches arrive in another order than they were asked for.
C24_ViewsConverge ==
    Quiet => \A o \in DOMAIN pending :
                /\ localBookings[o] = BookingsData
                /\ activeSessions[o] = ActiveData

\* ------------------------------------------------------------ behaviours
Refresh ==
    \/ Tick
    \/ \E o \in Online : fetchDashboardData(o)
    \/ \E o \in Online : fetchActiveSessions(o)
    \/ \E o \in Online : toastDismiss(o)

Transitions ==
    \/ \E o \in Online, b \in DOMAIN bookings, t \in PendingTargets,
          c \in Codes \cup {NoCode} : updateBookingStatus(o, b, t, c)
    \/ \E o \in Online : ubsUpdate(o)
    \/ \E o \in Online : ubsAnswer(o)
    \/ \E o \in Online : ubsCatch(o)
    \/ \E o \in Online, r \in FetchOutcomes : ubsWebhook(o, r)
    \/ \E o \in Online : ubsFinish(o)

Sessions ==
    \/ \E o \in Online, b \in DOMAIN bookings : startBookingSession(o, b)
    \/ \E o \in Online, b \in DOMAIN bookings : startBookingSessionPage(o, b)
    \/ \E o \in Online : sbsCheck(o)
    \/ \E o \in Online : sbsInsert(o)
    \/ \E o \in Online : sbsCatch(o)
    \/ \E o \in Online, s \in SessionIds : endBookingSession(o, s)
    \/ \E o \in Online : ebsRead(o)
    \/ \E o \in Online : ebsUpdate(o)
    \/ \E o \in Online : ebsCatch(o)
    \/ \E o \in Online, r \in FetchOutcomes \cup {"payload_error"} :
          ebsWebhook(o, r)
    \/ \E o \in Online : ebsFinish(o)

\* one operator, two bookings from pending on: approval and occupancy
Next == Refresh \/ Transitions \/ Sessions
Spec == InitWith({"b1", "b2"}, "pending", {"op1"}, MaxCalls) /\ [][Next]_vars

\* two operators on one pending booking: approval
NextBooking == Refresh \/ Transitions
SpecBooking == InitWith({"b1"}, "pending", Operators, MaxRaceCalls) /\ [][NextBooking]_vars

\* two operators on one confirmed booking: occupancy; the bookings do not
\* change here, so every view a user_sessions event produces is also produced
\* by a reload of the dashboard data
RefreshData ==
    \/ Tick
    \/ \E o \in Online : fetchDashboardData(o)
    \/ \E o \in Online : toastDismiss(o)

NextSession == RefreshData \/ Sessions
SpecSession == InitWith({"b1"}, "confirmed", Operators, MaxRaceCalls) /\ [][NextSession]_vars

\* the steps the dashboard and the store take on their own: the store answers
\* every call and the continuation of a settled promise runs; whether and when
\* the webhook endpoint answers is up to the endpoint (the fetch carries no
\* timeout and no abort signal)
Continuations ==
    \E o \in Online :
        \/ ubsUpdate(o) \/ ubsAnswer(o) \/ ubsCatch(o) \/ ubsFinish(o)
        \/ sbsCheck(o) \/ sbsInsert(o) \/ sbsCatch(o)
        \/ ebsRead(o) \/ ebsUpdate(o) \/ ebsCatch(o) \/ ebsFinish(o)

\* one operator, one booking, with the scheduling of the event loop
SpecLive ==
    /\ InitWith({"b1"}, "pending", Single, MaxCalls)
    /\ [][Next]_vars
    /\ WF_vars(Continuations)

\* two operators on one pending booking: approval and occupancy
SpecRace == InitWith({"b1"}, "pending", Operators, MaxRaceCalls) /\ [][Next]_vars

\* one operator ends a session that has been running for some seconds
NextDuration ==
    \/ \E o \in Online : fetchDashboardData(o)
    \/ \E o \in Online : toastDismiss(o)
    \/ \E o \in Online, s \in SessionIds : endBookingSession(o, s)
    \/ \E o \in Online : ebsRead(o)
    \/ \E o \in Online : ebsUpdate(o)
    \/ \E o \in Online : ebsCatch(o)
    \/ \E o \in Online, r \in FetchOutcomes : ebsWebhook(o, r)
    \/ \E o \in Online : ebsFinish(o)

InitDuration ==
    \E e \in 0..MaxElapsed :
        InitStore([b \in {"b1"} |-> BookingRow(b, "confirmed")],
                  <<StartedRow("b1", "op1", 0)>>, e, Single, MaxEndCalls)

SpecDuration == InitDuration /\ [][NextDuration]_vars

\* the statistics of the two dashboards over a snapshot of bookings
StatIds == {"b1", "b2", "b3", "b4"}

NextStats ==
    \/ \E o \in Online : fetchDashboardData(o)
    \/ \E o \in Online : fetchDashboardDataPage(o)

InitStats ==
    \E ids \in SUBSET StatIds : \E st \in [ids -> Status] :
        InitStore([b \in ids |-> BookingRow(b, st[b])], <<>>, 0, Single, 0)

SpecStats == InitStats /\ [][NextStats]_vars

\* a session of user u that ran for a minute from time t on
PastRow(u, t) ==
    [StartedRow("b1", "op1", t) EXCEPT
        !.user_id = u, !.status = "completed", !.end_time = t + 60,
        !.duration_minutes = 1, !.ended_by = "op1",
        !.confirmation_required = TRUE]

\* start times before, at the edge of and within the window of the clock
\* reading WindowSeconds + TickSeconds
SessionTimes == {0, TickSeconds, WindowSeconds}

\* the statistics of the two dashboards over a history of sessions
InitActive ==
    \E n \in 0..MaxRows :
        \E us \in [1..n -> {PastRow(u, t) : u \in Customers, t \in SessionTimes}] :
            InitStore([b \in {"b1"} |-> BookingRow(b, "confirmed")], us,
                      WindowSeconds + TickSeconds, Operators, 0)

SpecActive == InitActive /\ [][NextStats]_vars

\* one operator on one confirmed booking, in the dashboard of part_000:
\* sessions are started and ended one after the other
NextRestart ==
    \/ RefreshData
    \/ \E o \in Online, b \in DOMAIN bookings : startBookingSession(o, b)
    \/ \E o \in Online : sbsCheck(o)
    \/ \E o \in Online : sbsInsert(o)
    \/ \E o \in Online : sbsCatch(o)
    \/ \E o \in Online, s \in SessionIds : endBookingSession(o, s)
    \/ \E o \in Online : ebsRead(o)
    \/ \E o \in Online : ebsUpdate(o)
    \/ \E o \in Online : ebsCatch(o)
    \/ \E o \in Online, r \in FetchOutcomes \cup {"payload_error"} :
          ebsWebhook(o, r)
    \/ \E o \in Online : ebsFinish(o)

SpecRestart ==
    InitWith({"b1"}, "confirmed", Single, MaxStartCalls) /\ [][NextRestart]_vars

\* a session of user u that did not come from a booking
SubscriptionRow(u) ==
    [StartedRow("b1", "op1", 0) EXCEPT
        !.user_id = u, !.booking_id = NoId, !.session_type = "subscription",
        !.started_by = NoId]

\* one operator in pages/AdminDashboard.tsx: two confirmed bookings of one
\* user and one without user; the user may hold a subscription session
NextPage ==
    \/ \E o \in Online : fetchDashboardDataPage(o)
    \/ \E o \in Online : fetchActiveBookingSessions(o)
    \/ \E o \in Online : toastDismiss(o)
    \/ \E o \in Online, b \in DOMAIN bookings : startBookingSessionPage(o, b)
    \/ \E o \in Online : sbsCheck(o)
    \/ \E o \in Online : sbsInsert(o)
    \/ \E o \in Online : sbsCatch(o)

InitPage ==
    \E us \in {<<>>, <<SubscriptionRow("u1")>>, <<SubscriptionRow("u2")>>} :
        InitStore([b \in {"b1", "b2", "b3"} |-> BookingRow(b, "confirmed")],
                  us, 0, Single, MaxCalls)

SpecPage == InitPage /\ [][NextPage]_vars

\* the lists operator o holds are those of the store
Fresh(o) == localBookings[o] = BookingsData /\ activeSessions[o] = ActiveData

\* one operator who acts only on a view that shows the store
NextFresh ==
    \/ RefreshData
    \/ \E o \in Online, b \in DOMAIN bookings, t \in PendingTargets,
          c \in Codes \cup {NoCode} :
          Fresh(o) /\ updateBookingStatus(o, b, t, c)
    \/ \E o \in Online, b \in DOMAIN bookings :
          Fresh(o) /\ startBookingSession(o, b)
    \/ \E o \in Online, b \in DOMAIN bookings :
          Fresh(o) /\ startBookingSessionPage(o, b)
    \/ \E o \in Online, s \in SessionIds :
          Fresh(o) /\ endBookingSession(o, s)
    \/ \E o \in Online : ubsUpdate(o)
    \/ \E o \in Online : ubsAnswer(o)
    \/ \E o \in Online : ubsCatch(o)
    \/ \E o \in Online, r \in FetchOutcomes : ubsWebhook(o, r)
    \/ \E o \in Online : ubsFinish(o)
    \/ \E o \in Online : sbsCheck(o)
    \/ \E o \in Online : sbsInsert(o)
    \/ \E o \in Online : sbsCatch(o)
    \/ \E o \in Online : ebsRead(o)
    \/ \E o \in Online : ebsUpdate(o)
    \/ \E o \in Online : ebsCatch(o)
    \/ \E o \in Online, r \in FetchOutcomes \cup {"payload_error"} :
          ebsWebhook(o, r)
    \/ \E o \in Online : ebsFinish(o)

SpecFresh ==
    InitWith({"b1", "b2"}, "pending", Single, MaxCalls) /\ [][NextFresh]_vars

\* one operator whose auth session changes while the dashboard is in use
NextAuth ==
    \/ \E o \in Online, m \in Roles \cup {NoRole, NoUser} :
          onAuthStateChange(o, m)
    \/ \E o \in Online : fetchDashboardData(o)
    \/ \E o \in Online : toastDismiss(o)
    \/ Transitions
    \/ Sessions

InitAuth ==
    /\ InitDashboard([b \in {"b1"} |-> BookingRow(b, "pending")], <<>>, 0,
                     Single, {}, MaxCalls)
    /\ user = [o \in Single |-> NoUser]
    /\ metadata = [o \in Single |-> NoUser]
    /\ users = [o \in Single |-> OperatorRole(o)]
    /\ authUsers = [o \in Single |-> OperatorRole(o)]

SpecAuth == InitAuth /\ [][NextAuth]_vars

\* one account and its AuthContext: login, register, logout and
\* refreshUserSession run step by step, and the auth client reports the
\* session it holds at any time
NextContext ==
    \/ \E o \in Online : onAuthStateChange(o, metadata[o])
    \/ \E o \in Online : login(o)
    \/ \E o \in Online : lgSignIn(o)
    \/ \E o \in Online : lgProfile(o)
    \/ \E o \in Online : lgInsert(o)
    \/ \E o \in Online : lgSync(o)
    \/ \E o \in Online : lgFinish(o)
    \/ \E o \in Online : lgCatch(o)
    \/ \E o \in Online : register(o)
    \/ \E o \in Online : rgSignUp(o)
    \/ \E o \in Online : rgInsert(o)
    \/ \E o \in Online : rgFinish(o)
    \/ \E o \in Online : rgCatch(o)
    \/ \E o \in Online : logout(o)
    \/ \E o \in Online : loSignOut(o)
    \/ \E o \in Online : loFinish(o)
    \/ \E o \in Online : refreshUserSession(o)
    \/ \E o \in Online : rfSession(o)
    \/ \E o \in Online : rfProfile(o)
    \/ \E o \in Online : rfFinish(o)

\* nobody is signed in; the account may exist, with or without a role in
\* its metadata, and may have a profile row
InitContext ==
    /\ InitDashboard([b \in {"b1"} |-> BookingRow(b, "pending")], <<>>, 0,
                     Single, {}, MaxAuthCalls)
    /\ user = [o \in Single |-> NoUser]
    /\ metadata = [o \in Single |-> NoUser]
    /\ users \in [Single -> Roles \cup {Absent}]
    /\ authUsers \in [Single -> Roles \cup {NoRole, Absent}]

SpecContext == InitContext /\ [][NextContext]_vars

\* one subscribed operator whose re-fetches are followed answer by answer
NextFeed ==
    \/ \E o \in Online : toastDismiss(o)
    \/ Transitions
    \/ Sessions
    \/ \E o \in Online, table \in {"bookings", "user_sessions"} :
          onChange(o, table)
    \/ \E o \in Online, r \in responses : deliver(o, r)

InitFeed ==
    /\ InitDashboard([b \in {"b1"} |-> BookingRow(b, "pending")], <<>>, 0,
                     Single, Single, MaxCalls)
    /\ user = [o \in Single |-> OperatorRole(o)]
    /\ metadata = [o \in Single |-> OperatorRole(o)]
    /\ users = [o \in Single |-> OperatorRole(o)]
    /\ authUsers = [o \in Single |-> OperatorRole(o)]

SpecFeed == InitFeed /\ [][NextFeed]_vars
====
